---- MODULE Spec2Model ----
(***************************************************************************)
(* Model of server.py: the MT5 webhook receiver.                           *)
(*                                                                         *)
(*   POST /webhook  webhook_from_mt5   parse (with repair), persist, reply *)
(*   GET  /result   get_last_result    read result.json back               *)
(*   GET  /hello    hello_world        fixed greeting                      *)
(*                                                                         *)
(* Texts are sequences of one-character strings, so that json.loads,       *)
(* json.dumps and the re.sub repairs are computed character by character.  *)
(* The file system is the two paths result.json and result.json.tmp; an    *)
(* open file descriptor follows its inode across a rename.                 *)
(***************************************************************************)
EXTENDS Integers, Sequences, FiniteSets, TLC

(***************************************************************************)
(* Characters                                                              *)
(***************************************************************************)
Digits == {"0", "1", "2", "3", "4", "5", "6", "7", "8", "9"}

Letters ==
    {"a", "b", "c", "d", "e", "f", "g", "h", "i", "j", "k", "l", "m",
     "n", "o", "p", "q", "r", "s", "t", "u", "v", "w", "x", "y", "z",
     "A", "B", "C", "D", "E", "F", "G", "H", "I", "J", "K", "L", "M",
     "N", "O", "P", "Q", "R", "S", "T", "U", "V", "W", "X", "Y", "Z"}

\* \w of the re module
WordChars == Digits \cup Letters \cup {"_"}

\* \s of the re module, and the whitespace json.loads skips
Whitespace == {" ", "\t", "\n", "\r"}

DigitVal(c) ==
    CASE c = "0" -> 0 [] c = "1" -> 1 [] c = "2" -> 2 [] c = "3" -> 3
      [] c = "4" -> 4 [] c = "5" -> 5 [] c = "6" -> 6 [] c = "7" -> 7
      [] c = "8" -> 8 [] c = "9" -> 9

DigitChar(d) ==
    CASE d = 0 -> "0" [] d = 1 -> "1" [] d = 2 -> "2" [] d = 3 -> "3"
      [] d = 4 -> "4" [] d = 5 -> "5" [] d = 6 -> "6" [] d = 7 -> "7"
      [] d = 8 -> "8" [] d = 9 -> "9"

\* s[i], or the empty string past the end (Python's s[i:i+1])
CharAt(s, i) == IF i >= 1 /\ i <= Len(s) THEN s[i] ELSE ""

\* s[i:i+len(w)] == w
StartsWithAt(s, i, w) ==
    /\ i >= 1
    /\ i + Len(w) - 1 <= Len(s)
    /\ \A k \in 1..Len(w) : s[i + k - 1] = w[k]

\* s[i:] (1-based i)
Tail_(s, i) == IF i > Len(s) THEN <<>> ELSE SubSeq(s, i, Len(s))

(***************************************************************************)
(* Python values produced by json.loads.  JSON null is Python None, the    *)
(* same object _try_parse_mt5_json returns for "no payload".               *)
(***************************************************************************)
PyNone == [t |-> "null"]
JBool(b) == [t |-> "bool", b |-> b]
JInt(n) == [t |-> "int", n |-> n]
\* a finite float, kept as the digits of its shortest repr
JFloat(neg, ip, fr) == [t |-> "float", neg |-> neg, ip |-> ip, fr |-> fr]
JNaN == [t |-> "nan"]
JInf == [t |-> "inf"]
JNegInf == [t |-> "-inf"]
JStr(cs) == [t |-> "str", s |-> cs]
JArr(xs) == [t |-> "arr", xs |-> xs]
\* a dict: its items in insertion order, keys unique
JObj(kv) == [t |-> "obj", kv |-> kv]

(***************************************************************************)
(* json.loads (the pure-Python scanner of the json package): whitespace,   *)
(* objects, arrays, strings, numbers, true/false/null and the non-finite   *)
(* tokens NaN, Infinity and -Infinity, which json.loads accepts.  Not      *)
(* modelled: exponents of numbers and the string escapes \b \f \uXXXX,     *)
(* which no text of the model contains.                                    *)
(***************************************************************************)
Fail(msg) == [ok |-> FALSE, val |-> PyNone, pos |-> 0, err |-> msg]
Ok(v, p) == [ok |-> TRUE, val |-> v, pos |-> p, err |-> ""]

RECURSIVE SkipWs(_, _)
SkipWs(s, i) ==
    IF CharAt(s, i) \in Whitespace THEN SkipWs(s, i + 1) ELSE i

RECURSIVE DigitsEnd(_, _)
\* the index after the run of digits that starts at i
DigitsEnd(s, i) ==
    IF CharAt(s, i) \in Digits THEN DigitsEnd(s, i + 1) ELSE i

RECURSIVE DigitsToNat(_, _, _)
\* the number written by the digits s[a..b]
DigitsToNat(s, a, b) ==
    IF b < a THEN 0 ELSE DigitsToNat(s, a, b - 1) * 10 + DigitVal(s[b])

RECURSIVE StripZeros(_)
\* the fraction digits of a float's repr: no trailing zero, at least one digit
StripZeros(ds) ==
    IF Len(ds) > 1 /\ ds[Len(ds)] = "0"
    THEN StripZeros(SubSeq(ds, 1, Len(ds) - 1))
    ELSE ds

RECURSIVE py_scanstring(_, _, _)
\* s[j..] is the inside of a string literal; acc is the text decoded so far
py_scanstring(s, j, acc) ==
    LET c == CharAt(s, j) IN
    IF c = "" THEN Fail("Unterminated string")
    ELSE IF c = "\"" THEN Ok(JStr(acc), j + 1)
    ELSE IF c \in {"\n", "\t", "\r"} THEN Fail("Invalid control character")
    ELSE IF c = "\\" THEN
        LET e == CharAt(s, j + 1) IN
        IF e \in {"\"", "\\", "/"} THEN py_scanstring(s, j + 2, Append(acc, e))
        ELSE IF e = "n" THEN py_scanstring(s, j + 2, Append(acc, "\n"))
        ELSE IF e = "t" THEN py_scanstring(s, j + 2, Append(acc, "\t"))
        ELSE IF e = "r" THEN py_scanstring(s, j + 2, Append(acc, "\r"))
        ELSE Fail("Invalid escape")
    ELSE py_scanstring(s, j + 1, Append(acc, c))

\* NUMBER_RE.match(s, i): (-?(?:0|[1-9]\d*))(\.\d+)?
match_number(s, i) ==
    LET neg == CharAt(s, i) = "-"
        j == IF neg THEN i + 1 ELSE i
        k == IF CharAt(s, j) = "0" THEN j + 1 ELSE DigitsEnd(s, j)
        hasFrac == CharAt(s, k) = "." /\ CharAt(s, k + 1) \in Digits
        m == IF hasFrac THEN DigitsEnd(s, k + 1) ELSE k
        ip == DigitsToNat(s, j, k - 1)
    IN  IF CharAt(s, j) \notin Digits THEN Fail("Expecting value")
        ELSE IF hasFrac
             THEN Ok(JFloat(neg, ip, StripZeros(SubSeq(s, k + 1, m - 1))), m)
             ELSE Ok(JInt(IF neg THEN 0 - ip ELSE ip), m)

\* dict[k] = v: a repeated key keeps its place and takes the later value
PutItem(kv, k, v) ==
    IF \E n \in 1..Len(kv) : kv[n].k = k
    THEN [n \in 1..Len(kv) |-> IF kv[n].k = k THEN [k |-> k, v |-> v] ELSE kv[n]]
    ELSE Append(kv, [k |-> k, v |-> v])

RECURSIVE scan_once(_, _)
RECURSIVE JSONObjectItems(_, _, _)
RECURSIVE JSONArrayItems(_, _, _)

\* i is at the opening quote of a key; acc holds the items read so far
JSONObjectItems(s, i, acc) ==
    IF CharAt(s, i) # "\""
    THEN Fail("Expecting property name enclosed in double quotes")
    ELSE
    LET key == py_scanstring(s, i + 1, <<>>) IN
    IF ~key.ok THEN key ELSE
    LET c == SkipWs(s, key.pos) IN
    IF CharAt(s, c) # ":" THEN Fail("Expecting ':' delimiter") ELSE
    LET v == scan_once(s, SkipWs(s, c + 1)) IN
    IF ~v.ok THEN v ELSE
    LET e == SkipWs(s, v.pos)
        items == PutItem(acc, key.val.s, v.val)
    IN  IF CharAt(s, e) = "}" THEN Ok(JObj(items), e + 1)
        ELSE IF CharAt(s, e) = ","
             THEN JSONObjectItems(s, SkipWs(s, e + 1), items)
             ELSE Fail("Expecting ',' delimiter")

\* i is at the start of an element; acc holds the elements read so far
JSONArrayItems(s, i, acc) ==
    LET v == scan_once(s, i) IN
    IF ~v.ok THEN v ELSE
    LET e == SkipWs(s, v.pos)
        items == Append(acc, v.val)
    IN  IF CharAt(s, e) = "]" THEN Ok(JArr(items), e + 1)
        ELSE IF CharAt(s, e) = ","
             THEN JSONArrayItems(s, SkipWs(s, e + 1), items)
             ELSE Fail("Expecting ',' delimiter")

\* _scan_once of json.scanner, in the order of its tests
scan_once(s, i) ==
    LET c == CharAt(s, i) IN
    IF c = "" THEN Fail("Expecting value")
    ELSE IF c = "\"" THEN py_scanstring(s, i + 1, <<>>)
    ELSE IF c = "{" THEN
        LET j == SkipWs(s, i + 1) IN
        IF CharAt(s, j) = "}" THEN Ok(JObj(<<>>), j + 1)
        ELSE JSONObjectItems(s, j, <<>>)
    ELSE IF c = "[" THEN
        LET j == SkipWs(s, i + 1) IN
        IF CharAt(s, j) = "]" THEN Ok(JArr(<<>>), j + 1)
        ELSE JSONArrayItems(s, j, <<>>)
    ELSE IF StartsWithAt(s, i, <<"n", "u", "l", "l">>) THEN Ok(PyNone, i + 4)
    ELSE IF StartsWithAt(s, i, <<"t", "r", "u", "e">>) THEN Ok(JBool(TRUE), i + 4)
    ELSE IF StartsWithAt(s, i, <<"f", "a", "l", "s", "e">>) THEN Ok(JBool(FALSE), i + 5)
    ELSE IF match_number(s, i).ok THEN match_number(s, i)
    ELSE IF StartsWithAt(s, i, <<"N", "a", "N">>) THEN Ok(JNaN, i + 3)
    ELSE IF StartsWithAt(s, i, <<"I", "n", "f", "i", "n", "i", "t", "y">>)
         THEN Ok(JInf, i + 8)
    ELSE IF StartsWithAt(s, i, <<"-", "I", "n", "f", "i", "n", "i", "t", "y">>)
         THEN Ok(JNegInf, i + 9)
    ELSE Fail("Expecting value")

\* json.loads(s): one value between optional whitespace, nothing after it
json_loads(s) ==
    LET r == scan_once(s, SkipWs(s, 1)) IN
    IF ~r.ok THEN r
    ELSE IF SkipWs(s, r.pos) # Len(s) + 1 THEN Fail("Extra data")
    ELSE r

(***************************************************************************)
(* json.dumps(data, ensure_ascii=False, indent=2)                          *)
(***************************************************************************)
RECURSIVE NatToText(_)
NatToText(n) ==
    IF n < 10 THEN <<DigitChar(n)>>
    ELSE Append(NatToText(n \div 10), DigitChar(n % 10))

\* int.__repr__
IntToText(n) == IF n < 0 THEN <<"-">> \o NatToText(0 - n) ELSE NatToText(n)

\* float.__repr__ of a finite float in positional notation
FloatToText(v) ==
    (IF v.neg THEN <<"-">> ELSE <<>>) \o NatToText(v.ip) \o <<".">> \o v.fr

RECURSIVE encode_basestring(_)
\* the inside of a string literal: ", \ and control characters escaped
encode_basestring(cs) ==
    IF cs = <<>> THEN <<>>
    ELSE LET c == Head(cs)
             e == CASE c = "\"" -> <<"\\", "\"">>
                    [] c = "\\" -> <<"\\", "\\">>
                    [] c = "\n" -> <<"\\", "n">>
                    [] c = "\t" -> <<"\\", "t">>
                    [] c = "\r" -> <<"\\", "r">>
                    [] OTHER -> <<c>>
         IN  e \o encode_basestring(Tail(cs))

QuoteText(cs) == <<"\"">> \o encode_basestring(cs) \o <<"\"">>

RECURSIVE Spaces(_)
Spaces(n) == IF n <= 0 THEN <<>> ELSE <<" ">> \o Spaces(n - 1)

\* '\n' + ' ' * (indent * level)
NewlineIndent(level) == <<"\n">> \o Spaces(2 * level)

RECURSIVE iterencode(_, _)
RECURSIVE iterencode_list(_, _, _)
RECURSIVE iterencode_dict(_, _, _)

\* the elements xs[n..] of a list, each on its own line at the given level
iterencode_list(xs, n, level) ==
    IF n > Len(xs) THEN <<>>
    ELSE (IF n > 1 THEN <<",">> ELSE <<>>)
         \o NewlineIndent(level) \o iterencode(xs[n], level)
         \o iterencode_list(xs, n + 1, level)

\* the items kv[n..] of a dict, each on its own line at the given level
iterencode_dict(kv, n, level) ==
    IF n > Len(kv) THEN <<>>
    ELSE (IF n > 1 THEN <<",">> ELSE <<>>)
         \o NewlineIndent(level) \o QuoteText(kv[n].k) \o <<":", " ">>
         \o iterencode(kv[n].v, level)
         \o iterencode_dict(kv, n + 1, level)

\* _iterencode of json.encoder at the given nesting level
iterencode(v, level) ==
    CASE v.t = "null" -> <<"n", "u", "l", "l">>
      [] v.t = "bool" -> IF v.b THEN <<"t", "r", "u", "e">>
                                ELSE <<"f", "a", "l", "s", "e">>
      [] v.t = "int" -> IntToText(v.n)
      [] v.t = "float" -> FloatToText(v)
      [] v.t = "nan" -> <<"N", "a", "N">>
      [] v.t = "inf" -> <<"I", "n", "f", "i", "n", "i", "t", "y">>
      [] v.t = "-inf" -> <<"-", "I", "n", "f", "i", "n", "i", "t", "y">>
      [] v.t = "str" -> QuoteText(v.s)
      [] v.t = "arr" ->
            IF v.xs = <<>> THEN <<"[", "]">>
            ELSE <<"[">> \o iterencode_list(v.xs, 1, level + 1)
                 \o NewlineIndent(level) \o <<"]">>
      [] v.t = "obj" ->
            IF v.kv = <<>> THEN <<"{", "}">>
            ELSE <<"{">> \o iterencode_dict(v.kv, 1, level + 1)
                 \o NewlineIndent(level) \o <<"}">>

json_dumps(v) == iterencode(v, 0)

RECURSIVE HasNonFinite(_)
\* does the value hold a float that allow_nan=False refuses
HasNonFinite(v) ==
    CASE v.t \in {"nan", "inf", "-inf"} -> TRUE
      [] v.t = "arr" -> \E n \in 1..Len(v.xs) : HasNonFinite(v.xs[n])
      [] v.t = "obj" -> \E n \in 1..Len(v.kv) : HasNonFinite(v.kv[n].v)
      [] OTHER -> FALSE

(***************************************************************************)
(* The repairs of _try_parse_mt5_json: three re.sub passes.  re.sub scans  *)
(* left to right, replaces each leftmost match and resumes after it.       *)
(***************************************************************************)
IsWord(c) == c \in WordChars

\* \b between s[p-1] and s[p]
WordBoundary(s, p) == IsWord(CharAt(s, p - 1)) # IsWord(CharAt(s, p))

\* \d{4}\.\d{2}\.\d{2} at w
DateAt(s, w) ==
    /\ \A k \in {0, 1, 2, 3, 5, 6, 8, 9} : CharAt(s, w + k) \in Digits
    /\ CharAt(s, w + 4) = "."
    /\ CharAt(s, w + 7) = "."

\* \d{2}:\d{2}:\d{2} at w
TimeAt(s, w) ==
    /\ \A k \in {0, 1, 3, 4, 6, 7} : CharAt(s, w + k) \in Digits
    /\ CharAt(s, w + 2) = ":"
    /\ CharAt(s, w + 5) = ":"

\* variant: the pattern without its optional time of day
DatetimeMatchEnd_DateOnly(s, i) ==
    LET w == SkipWs(s, i + 1)
        d == w + 10
    IN  IF CharAt(s, i) # ":" \/ ~DateAt(s, w) THEN 0
        ELSE IF WordBoundary(s, d) THEN d
        ELSE 0

\* (:\s*)(\d{4}\.\d{2}\.\d{2}(?:\s+\d{2}:\d{2}:\d{2})?)\b matched at i:
\* the index after the match, or 0 when there is no match at i
DatetimeMatchEnd(s, i) ==
    LET w == SkipWs(s, i + 1)
        d == w + 10
        tw == SkipWs(s, d)
    IN  IF CharAt(s, i) # ":" \/ ~DateAt(s, w) THEN 0
        ELSE IF tw > d /\ TimeAt(s, tw) /\ WordBoundary(s, tw + 8) THEN tw + 8
        ELSE IF WordBoundary(s, d) THEN d
        ELSE 0

RECURSIVE QuoteDatetimes(_, _)
\* re.sub(r'(:\s*)(<datetime>)\b', r'\1"\2"', s) from index i on
QuoteDatetimes(s, i) ==
    IF i > Len(s) THEN <<>>
    ELSE LET e == DatetimeMatchEnd(s, i)
             w == SkipWs(s, i + 1)
         IN  IF e = 0 THEN <<s[i]>> \o QuoteDatetimes(s, i + 1)
             ELSE SubSeq(s, i, w - 1) \o <<"\"">> \o SubSeq(s, w, e - 1)
                  \o <<"\"">> \o QuoteDatetimes(s, e)

RECURSIVE RemoveTrailingCommas(_, _)
\* re.sub(r',\s*([}\]])', r'\1', s) from index i on
RemoveTrailingCommas(s, i) ==
    IF i > Len(s) THEN <<>>
    ELSE LET w == SkipWs(s, i + 1) IN
         IF s[i] = "," /\ CharAt(s, w) \in {"}", "]"}
         THEN <<s[w]>> \o RemoveTrailingCommas(s, w + 1)
         ELSE <<s[i]>> \o RemoveTrailingCommas(s, i + 1)

RECURSIVE ReplaceWord(_, _, _, _)
\* re.sub(r'\b' + word + r'\b', repl, s) from index i on
ReplaceWord(s, word, repl, i) ==
    IF i > Len(s) THEN <<>>
    ELSE IF /\ WordBoundary(s, i)
            /\ StartsWithAt(s, i, word)
            /\ WordBoundary(s, i + Len(word))
         THEN repl \o ReplaceWord(s, word, repl, i + Len(word))
         ELSE <<s[i]>> \o ReplaceWord(s, word, repl, i + 1)

NullText == <<"n", "u", "l", "l">>

\* the three passes in the order of the source
Repair(raw_text) ==
    LET r1 == QuoteDatetimes(raw_text, 1)
        r2 == RemoveTrailingCommas(r1, 1)
        r3 == ReplaceWord(r2, <<"N", "a", "N">>, NullText, 1)
        r4 == ReplaceWord(r3, <<"I", "n", "f", "i", "n", "i", "t", "y">>, NullText, 1)
        r5 == ReplaceWord(r4, <<"-", "I", "n", "f", "i", "n", "i", "t", "y">>,
                          NullText, 1)
    IN  r5

\* an optional text: None, or the text
NoText == [some |-> FALSE, text |-> <<>>]
SomeText(s) == [some |-> TRUE, text |-> s]

\* an optional error message: None, or "<first> | after_repair: <second>"
NoError == [some |-> FALSE, first |-> "", second |-> ""]
SomeError(e1, e2) == [some |-> TRUE, first |-> e1, second |-> e2]

\* (payload, repaired_text, error_message)
_try_parse_mt5_json(raw_text) ==
    LET first == json_loads(raw_text) IN
    IF first.ok
    THEN [payload |-> first.val, repaired |-> NoText, error |-> NoError]
    ELSE LET repaired == Repair(raw_text)
             second == json_loads(repaired)
         IN  IF second.ok
             THEN [payload |-> second.val, repaired |-> SomeText(repaired),
                   error |-> NoError]
             ELSE [payload |-> PyNone, repaired |-> SomeText(repaired),
                   error |-> SomeError(first.err, second.err)]

(***************************************************************************)
(* Bounds of the model                                                     *)
(***************************************************************************)
\* webhook requests served in one run
MaxRequests == 2
\* GET /result requests served in one run
MaxReads == 1
\* disk faults (OSError of write_text) injected in one run
MaxFaults == 1

\* the request tasks of POST /webhook that can be in flight together
Tasks == {"w1", "w2"}

\* the byte 0xFF, which is not valid UTF-8
BadByte == "xFF"

\* request bodies: bytes, an ASCII byte written as its character
Bodies ==
    { <<"{", "\"", "a", "\"", ":", "[", "-", "1", ".", "5", "0", ",",
        "\"", "q", "\\", "\"", "\"", ",", "t", "r", "u", "e", "]", "}">>,
                                                  \* {"a":[-1.50,"q\"",true]}
      <<"[", "1", ",", "]">>,                     \* [1,]   repaired to [1]
      <<"n", "u", "l", "l">>,                     \* null
      <<"{", "x">>,                               \* {x     not repairable
      <<"N", "a", "N">>,                          \* NaN
      <<"{", BadByte, "}">> }                     \* {\xff}

(***************************************************************************)
(* State                                                                   *)
(***************************************************************************)
VARIABLES
    result_file,   \* result.json: [exists, text]
    tmp_file,      \* result.json.tmp: [exists, text]
    pc,            \* pc[t]: where webhook task t is
    body,          \* body[t]: the raw bytes of the request
    raw_text,      \* raw_text[t]: the decoded body
    parsed,        \* parsed[t]: what _try_parse_mt5_json returned
    fd,            \* fd[t]: the file the open descriptor of t refers to
    exc,           \* exc[t]: the exception _write_result_file raised, or ""
    response,      \* response[t]: what the client of t got
    rpc,           \* where the GET /result handler is
    rresponse,     \* what the client of GET /result got
    hello,         \* what the last client of GET /hello got
    given,         \* history: the values handed to _write_result_file
    renames,       \* history: how many replace() calls succeeded
    solo,          \* history: solo[t], no other webhook overlapped t so far
    requests,      \* webhook requests started
    reads,         \* GET /result requests started
    faults         \* disk faults injected

vars == <<result_file, tmp_file, pc, body, raw_text, parsed, fd, exc, response,
          rpc, rresponse, hello, given, renames, solo, requests, reads, faults>>

NoFile == [exists |-> FALSE, text |-> <<>>]
File(text) == [exists |-> TRUE, text |-> text]

NoParse == [payload |-> PyNone, repaired |-> NoText, error |-> NoError]

\* no response yet
NoResponse ==
    [status |-> 0, kind |-> "", received |-> PyNone, error |-> NoError,
     raw |-> <<>>, repaired |-> NoText]
NoRead == [status |-> 0, kind |-> "", val |-> PyNone]

\* an exception nobody catches: the framework answers 500 with a plain body
Uncaught == [NoResponse EXCEPT !.status = 500, !.kind = "uncaught"]
UncaughtRead == [status |-> 500, kind |-> "uncaught", val |-> PyNone]

\* nobody has asked GET /hello yet
NoHello == [status |-> 0, message |-> ""]

Init ==
    /\ result_file = NoFile
    /\ tmp_file = NoFile
    /\ pc = [t \in Tasks |-> "idle"]
    /\ body = [t \in Tasks |-> <<>>]
    /\ raw_text = [t \in Tasks |-> <<>>]
    /\ parsed = [t \in Tasks |-> NoParse]
    /\ fd = [t \in Tasks |-> "none"]
    /\ exc = [t \in Tasks |-> ""]
    /\ response = [t \in Tasks |-> NoResponse]
    /\ rpc = "idle"
    /\ rresponse = NoRead
    /\ hello = NoHello
    /\ given = {}
    /\ renames = 0
    /\ solo = [t \in Tasks |-> FALSE]
    /\ requests = 0
    /\ reads = 0
    /\ faults = 0

(***************************************************************************)
(* POST /webhook                                                           *)
(***************************************************************************)
\* U+FFFD, the marker errors="replace" would put for an invalid byte
ReplacementChar == "uFFFD"

\* variant: raw_body.decode("utf-8", "replace")
Decode_Replace(raw_body) ==
    [i \in 1..Len(raw_body) |->
        IF raw_body[i] = BadByte THEN ReplacementChar ELSE raw_body[i]]

\* raw_body.decode("utf-8", "ignore"): invalid bytes are dropped
Decode(raw_body) == SelectSeq(raw_body, LAMBDA b : b # BadByte)

\* variant: the rejected payload itself is stored, not {}
SnapshotValue_Payload(p) == p.payload

\* variant: the payload is stored inside a wrapper object
SnapshotValue_Wrapped(p) ==
    JObj(<<[k |-> <<"p", "a", "y", "l", "o", "a", "d">>,
            v |-> IF p.payload = PyNone THEN JObj(<<>>) ELSE p.payload]>>)

\* the value webhook_from_mt5 hands to _write_result_file
SnapshotValue(p) == IF p.payload = PyNone THEN JObj(<<>>) ELSE p.payload

\* a task between its first statement and its response
InFlight(t) == pc[t] \in {"open", "write", "replace", "respond"}

\* get_last_result has no await: once it runs, nothing else runs on the
\* event loop until it returns; only the worker threads go on
LoopFree == rpc # "read"

\* file.write(payload) at offset 0 of a file that holds old
Overwrite(payload, old) == payload \o Tail_(old, Len(payload) + 1)

\* lines 67-85 and 98-110 up to the await: decode, parse, choose the value,
\* serialize it, hand _write_sync to a worker thread
Webhook(t, raw_body) ==
    /\ LoopFree
    /\ pc[t] = "idle"
    /\ requests < MaxRequests
    /\ requests' = requests + 1
    /\ body' = [body EXCEPT ![t] = raw_body]
    /\ raw_text' = [raw_text EXCEPT ![t] = Decode(raw_body)]
    /\ parsed' = [parsed EXCEPT ![t] = _try_parse_mt5_json(Decode(raw_body))]
    /\ given' = given \cup {SnapshotValue(parsed'[t])}
    /\ solo' = [u \in Tasks |->
                  IF u = t THEN \A o \in Tasks \ {t} : ~InFlight(o) ELSE FALSE]
    /\ pc' = [pc EXCEPT ![t] = "open"]
    /\ UNCHANGED <<result_file, tmp_file, fd, exc, response, rpc, rresponse,
                   renames, reads, faults, hello>>

\* variant: the payload is written in place, result.json itself is opened
OpenTmp_InPlace(t) ==
    /\ pc[t] = "open"
    /\ result_file' = File(<<>>)
    /\ fd' = [fd EXCEPT ![t] = "result"]
    /\ pc' = [pc EXCEPT ![t] = "write"]
    /\ UNCHANGED <<tmp_file, body, raw_text, parsed, exc, response, rpc,
                   rresponse, given, renames, solo, requests, reads, faults,
                   hello>>

\* write_text, first half: open(tmp_path, "w") creates or truncates the file
OpenTmp(t) ==
    /\ pc[t] = "open"
    /\ tmp_file' = File(<<>>)
    /\ fd' = [fd EXCEPT ![t] = "tmp"]
    /\ pc' = [pc EXCEPT ![t] = "write"]
    /\ UNCHANGED <<result_file, body, raw_text, parsed, exc, response, rpc,
                   rresponse, given, renames, solo, requests, reads, faults,
                   hello>>

\* write_text, second half: write the payload at offset 0 of the open file,
\* wherever that file is by now, and close it
WriteTmp(t) ==
    /\ pc[t] = "write"
    /\ LET payload == json_dumps(SnapshotValue(parsed[t])) IN
       /\ tmp_file' = IF fd[t] = "tmp"
                      THEN File(Overwrite(payload, tmp_file.text))
                      ELSE tmp_file
       /\ result_file' = IF fd[t] = "result"
                         THEN File(Overwrite(payload, result_file.text))
                         ELSE result_file
    /\ fd' = [fd EXCEPT ![t] = "none"]
    /\ pc' = [pc EXCEPT ![t] = "replace"]
    /\ UNCHANGED <<body, raw_text, parsed, exc, response, rpc, rresponse,
                   given, renames, solo, requests, reads, faults, hello>>

\* write_text raises OSError (disk full, quota): nothing is written, the
\* file is closed, replace() is not reached
WriteFault(t) ==
    /\ pc[t] = "write"
    /\ faults < MaxFaults
    /\ faults' = faults + 1
    /\ fd' = [fd EXCEPT ![t] = "none"]
    /\ exc' = [exc EXCEPT ![t] = "OSError"]
    /\ pc' = [pc EXCEPT ![t] = "respond"]
    /\ UNCHANGED <<result_file, tmp_file, body, raw_text, parsed, response,
                   rpc, rresponse, given, renames, solo, requests, reads,
                   hello>>

\* variant: the temporary file is copied onto result.json, not renamed
Replace_Copy(t) ==
    /\ pc[t] = "replace"
    /\ IF tmp_file.exists
       THEN /\ result_file' = tmp_file
            /\ renames' = renames + 1
            /\ UNCHANGED <<tmp_file, fd, exc>>
       ELSE /\ exc' = [exc EXCEPT ![t] = "FileNotFoundError"]
            /\ UNCHANGED <<result_file, tmp_file, fd, renames>>
    /\ pc' = [pc EXCEPT ![t] = "respond"]
    /\ UNCHANGED <<body, raw_text, parsed, response, rpc, rresponse, given,
                   solo, requests, reads, faults, hello>>

\* variant: result.json is removed first, then the temporary file renamed
Replace_UnlinkFirst(t) ==
    /\ pc[t] = "replace"
    /\ IF tmp_file.exists
       THEN /\ result_file' = tmp_file
            /\ tmp_file' = NoFile
            /\ fd' = [u \in Tasks |->
                        CASE fd[u] = "tmp" -> "result"
                          [] fd[u] = "result" -> "unlinked"
                          [] OTHER -> fd[u]]
            /\ renames' = renames + 1
            /\ UNCHANGED exc
       ELSE /\ result_file' = NoFile
            /\ fd' = [u \in Tasks |->
                        IF fd[u] = "result" THEN "unlinked" ELSE fd[u]]
            /\ exc' = [exc EXCEPT ![t] = "FileNotFoundError"]
            /\ UNCHANGED <<tmp_file, renames>>
    /\ pc' = [pc EXCEPT ![t] = "respond"]
    /\ UNCHANGED <<body, raw_text, parsed, response, rpc, rresponse, given,
                   solo, requests, reads, faults, hello>>

\* tmp_path.replace(result_path): rename(2); the file that was result.json
\* is unlinked; FileNotFoundError when result.json.tmp is not there
Replace(t) ==
    /\ pc[t] = "replace"
    /\ IF tmp_file.exists
       THEN /\ result_file' = tmp_file
            /\ tmp_file' = NoFile
            /\ fd' = [u \in Tasks |->
                        CASE fd[u] = "tmp" -> "result"
                          [] fd[u] = "result" -> "unlinked"
                          [] OTHER -> fd[u]]
            /\ renames' = renames + 1
            /\ UNCHANGED exc
       ELSE /\ exc' = [exc EXCEPT ![t] = "FileNotFoundError"]
            /\ UNCHANGED <<result_file, tmp_file, fd, renames>>
    /\ pc' = [pc EXCEPT ![t] = "respond"]
    /\ UNCHANGED <<body, raw_text, parsed, response, rpc, rresponse, given,
                   solo, requests, reads, faults, hello>>

\* JSONResponse(content).render: json.dumps(content, allow_nan=False)
\* raises ValueError on a non-finite float
RenderFails(content) == HasNonFinite(content)

\* variant: the repaired text is reported as parse returned it
WebhookResponse_Unfiltered(p, raw, e) ==
    IF e # "" THEN Uncaught
    ELSE IF p.payload = PyNone
    THEN [status |-> 400, kind |-> "invalid_json", received |-> PyNone,
          error |-> p.error, raw |-> raw, repaired |-> p.repaired]
    ELSE IF HasNonFinite(p.payload) THEN Uncaught
    ELSE [NoResponse EXCEPT !.status = 200, !.kind = "ok",
                            !.received = p.payload]

\* lines 87-95 and 112, after the await: an exception of _write_result_file
\* propagates; otherwise the response of the branch taken is built
WebhookResponse(p, raw, e) ==
    IF e # "" THEN Uncaught
    ELSE IF p.payload = PyNone
    THEN [status |-> 400, kind |-> "invalid_json", received |-> PyNone,
          error |-> p.error, raw |-> raw,
          repaired |-> IF p.repaired # SomeText(raw) THEN p.repaired ELSE NoText]
    ELSE IF RenderFails(p.payload) THEN Uncaught
    ELSE [NoResponse EXCEPT !.status = 200, !.kind = "ok",
                            !.received = p.payload]

Respond(t) ==
    /\ LoopFree
    /\ pc[t] = "respond"
    /\ response' = [response EXCEPT
                      ![t] = WebhookResponse(parsed[t], raw_text[t], exc[t])]
    /\ pc' = [pc EXCEPT ![t] = "done"]
    /\ UNCHANGED <<result_file, tmp_file, body, raw_text, parsed, fd, exc,
                   rpc, rresponse, given, renames, solo, requests, reads,
                   faults, hello>>

\* the request is over; the task can serve the next one
Finish(t) ==
    /\ pc[t] = "done"
    /\ pc' = [pc EXCEPT ![t] = "idle"]
    /\ body' = [body EXCEPT ![t] = <<>>]
    /\ raw_text' = [raw_text EXCEPT ![t] = <<>>]
    /\ parsed' = [parsed EXCEPT ![t] = NoParse]
    /\ exc' = [exc EXCEPT ![t] = ""]
    /\ response' = [response EXCEPT ![t] = NoResponse]
    /\ solo' = [solo EXCEPT ![t] = FALSE]
    /\ UNCHANGED <<result_file, tmp_file, fd, rpc, rresponse, given, renames,
                   requests, reads, faults, hello>>

(***************************************************************************)
(* GET /result                                                             *)
(***************************************************************************)
\* lines 129-141: read_text, json.loads inside the try, JSONResponse outside
ReadResponse(raw) ==
    LET r == json_loads(raw) IN
    IF ~r.ok THEN [status |-> 500, kind |-> "invalid_result_json", val |-> PyNone]
    ELSE IF RenderFails(r.val) THEN UncaughtRead
    ELSE [status |-> 200, kind |-> "ok", val |-> r.val]

\* the whole of get_last_result on one state of result.json
get_last_result(file) ==
    IF ~file.exists
    THEN [status |-> 404, kind |-> "not_found", val |-> PyNone]
    ELSE ReadResponse(file.text)

\* variant: a missing result.json is created empty by the read
ReadExists_Creates ==
    /\ rpc = "idle"
    /\ reads < MaxReads
    /\ reads' = reads + 1
    /\ IF result_file.exists
       THEN /\ rpc' = "read"
            /\ UNCHANGED <<rresponse, result_file>>
       ELSE /\ rpc' = "done"
            /\ rresponse' = get_last_result(result_file)
            /\ result_file' = File(<<"{", "}">>)
    /\ UNCHANGED <<tmp_file, pc, body, raw_text, parsed, fd,
                   exc, response, given, renames, solo, requests, faults,
                   hello>>

\* lines 121-127: result_path.exists()
ReadExists ==
    /\ rpc = "idle"
    /\ reads < MaxReads
    /\ reads' = reads + 1
    /\ IF result_file.exists
       THEN /\ rpc' = "read"
            /\ UNCHANGED rresponse
       ELSE /\ rpc' = "done"
            /\ rresponse' = get_last_result(result_file)
    /\ UNCHANGED <<result_file, tmp_file, pc, body, raw_text, parsed, fd,
                   exc, response, given, renames, solo, requests, faults,
                   hello>>

\* lines 129-141 on the file as it is now
ReadText ==
    /\ rpc = "read"
    /\ rresponse' = ReadResponse(result_file.text)
    /\ rpc' = "done"
    /\ UNCHANGED <<result_file, tmp_file, pc, body, raw_text, parsed, fd,
                   exc, response, given, renames, solo, requests, reads,
                   faults, hello>>

\* the response is sent; the next GET /result can come
ReadFinish ==
    /\ rpc = "done"
    /\ rpc' = "idle"
    /\ rresponse' = NoRead
    /\ UNCHANGED <<result_file, tmp_file, pc, body, raw_text, parsed, fd,
                   exc, response, given, renames, solo, requests, reads,
                   faults, hello>>

(***************************************************************************)
(* GET /hello                                                              *)
(***************************************************************************)
\* lines 144-146: a fixed greeting
hello_world ==
    /\ LoopFree
    /\ hello' = [status |-> 200, message |-> "Hello World"]
    /\ UNCHANGED <<result_file, tmp_file, pc, body, raw_text, parsed, fd, exc,
                   response, rpc, rresponse, given, renames, solo, requests,
                   reads, faults>>

Next ==
    \/ \E t \in Tasks, b \in Bodies : Webhook(t, b)
    \/ \E t \in Tasks : OpenTmp(t)
    \/ \E t \in Tasks : WriteTmp(t)
    \/ \E t \in Tasks : WriteFault(t)
    \/ \E t \in Tasks : Replace(t)
    \/ \E t \in Tasks : Respond(t)
    \/ \E t \in Tasks : Finish(t)
    \/ ReadExists
    \/ ReadText
    \/ ReadFinish
    \/ hello_world

Spec == Init /\ [][Next]_vars

(***************************************************************************)
(* One request at a time, over a larger family of bodies: the parser and   *)
(* the response of webhook_from_mt5 without concurrency.                   *)
(***************************************************************************)
\* 2025.12.12 04:05:00
DatetimeText ==
    <<"2", "0", "2", "5", ".", "1", "2", ".", "1", "2", " ", "0", "4", ":",
      "0", "5", ":", "0", "0">>

\* 2025.12.12
DateText ==
    <<"2", "0", "2", "5", ".", "1", "2", ".", "1", "2">>

\* 1.23
PriceText ==
    <<"1", ".", "2", "3">>

\* NaN
NaNText ==
    <<"N", "a", "N">>

\* Infinity
InfinityText ==
    <<"I", "n", "f", "i", "n", "i", "t", "y">>

\* -Infinity
NegInfinityText ==
    <<"-", "I", "n", "f", "i", "n", "i", "t", "y">>

\* "a:2025.12.12"
DatetimeInString ==
    <<"\"", "a", ":", "2", "0", "2", "5", ".", "1", "2", ".", "1", "2",
      "\"">>

\* "NaN"
NaNInString ==
    <<"\"", "N", "a", "N", "\"">>

\* {"bar_time":
FieldOpen ==
    <<"{", "\"", "b", "a", "r", "_", "t", "i", "m", "e", "\"", ":">>

\* ,"price":
FieldSep ==
    <<",", "\"", "p", "r", "i", "c", "e", "\"", ":">>

\* {not json at all
NotJsonAtAll ==
    <<"{", "n", "o", "t", " ", "j", "s", "o", "n", " ", "a", "t", " ", "a",
      "l", "l">>

\* field values that are valid JSON and hold no text a repair rule matches
PlainValues ==
    { PriceText, <<"7">>, <<"t", "r", "u", "e">>, NullText,
      <<"\"", "x", "\"">> }

\* valid JSON strings that hold text a repair rule matches
TrickyValues == { DatetimeInString, NaNInString }

\* the unquoted datetimes MT5 sends
DatetimeValues == { DatetimeText, DateText }

\* the non-finite tokens
NonFiniteValues == { NaNText, InfinityText, NegInfinityText }

\* a value no repair rule helps
JunkValues == { <<"x">> }

FieldValues ==
    PlainValues \cup TrickyValues \cup DatetimeValues \cup NonFiniteValues
    \cup JunkValues

\* what may stand between the last value and the closing brace
Trails == { <<>>, <<",">>, <<",", " ">> }

\* {"bar_time":<v1>,"price":<v2><trail>}
PayloadText(v1, v2, trail) ==
    FieldOpen \o v1 \o FieldSep \o v2 \o trail \o <<"}">>

\* the request bodies of the sequential runs
ParseBodies ==
    { PayloadText(v1, v2, tr) :
          v1 \in FieldValues, v2 \in FieldValues, tr \in Trails }
    \cup Bodies
    \cup { NotJsonAtAll,
           <<"{", "x", BadByte>>,
           <<"[", "1", ",", " ", "N", "a", "N", ",", "]">> }

\* POST /webhook when nothing else has been requested
ParseWebhook(raw_body) ==
    /\ requests = 0
    /\ Webhook("w1", raw_body)

ParseNext ==
    \/ \E b \in ParseBodies : ParseWebhook(b)
    \/ OpenTmp("w1")
    \/ WriteTmp("w1")
    \/ Replace("w1")
    \/ Respond("w1")

ParseSpec == Init /\ [][ParseNext]_vars


(***************************************************************************)
(* Properties                                                              *)
(***************************************************************************)
EmptyMapping == JObj(<<>>)

\* what GET /result would answer on the present result.json
ReadNow == get_last_result(result_file)

\* every task has returned or not started
NoWriteInFlight == \A t \in Tasks : ~InFlight(t)

\* C1: result.json is absent or holds the complete serialization of one
\* value some write was given, and no read finds it unparseable.
C1_SnapshotAlwaysComplete ==
    /\ result_file.exists =>
          \E v \in given : result_file.text = json_dumps(v)
    /\ rpc = "done" => rresponse.kind # "invalid_result_json"

\* C2: once N concurrent writes of N distinct finite values have all
\* finished, with no disk fault, a read answers 200 with one of those values.
C2_ReadAfterConcurrentWrites ==
    ( /\ NoWriteInFlight
      /\ requests >= 2
      /\ Cardinality(given) = requests
      /\ faults = 0
      /\ \A v \in given : ~HasNonFinite(v) )
    => (ReadNow.status = 200 /\ ReadNow.val \in given)

\* C3: a request whose snapshot write raised an I/O error still gets the
\* response of its parse outcome: 200 ok if parsed, 400 invalid_json if not.
C3_WriteFailureKeepsResponse ==
    \A t \in Tasks :
        (pc[t] = "done" /\ exc[t] # "") =>
            response[t].kind =
                (IF parsed[t].error.some THEN "invalid_json" ELSE "ok")

\* the reference strict parse: json.loads without the non-finite tokens
StrictJsonValid(s) == json_loads(s).ok /\ ~HasNonFinite(json_loads(s).val)

\* C4: a body that is valid JSON is parsed to the value of the reference
\* strict parse with no repair text and no error, that value becomes the
\* snapshot, and the response is 200 ok (unless the write raised).
C4_ValidJsonAccepted ==
    \A t \in Tasks :
        (pc[t] # "idle" /\ StrictJsonValid(raw_text[t])) =>
            /\ parsed[t] = [payload |-> json_loads(raw_text[t]).val,
                            repaired |-> NoText, error |-> NoError]
            /\ json_loads(raw_text[t]).val \in given
            /\ (pc[t] = "done" /\ exc[t] = "") =>
                  /\ response[t].status = 200
                  /\ response[t].kind = "ok"
                  /\ response[t].received = json_loads(raw_text[t]).val

\* C5: after a webhook call that answered 400 invalid_json, with no other
\* webhook overlapping it or started since, a read returns {}.
C5_InvalidInputStoresEmpty ==
    \A t \in Tasks :
        (pc[t] = "done" /\ solo[t] /\ response[t].kind = "invalid_json") =>
            ReadNow = [status |-> 200, kind |-> "ok", val |-> EmptyMapping]

\* C5 witness: an unrepairable body was answered 400 after an earlier
\* request had stored a snapshot other than {}.
C5_Witness ==
    \E t \in Tasks :
        /\ pc[t] = "done"
        /\ solo[t]
        /\ response[t].kind = "invalid_json"
        /\ parsed[t].error.some
        /\ renames = 2
        /\ given # {EmptyMapping}

\* C6: once a webhook has been answered (200 or 400), a read returns a value
\* that was handed to a write: that request's or a later one's.
C6_ReadAfterResponse ==
    \A t \in Tasks :
        (pc[t] = "done" /\ response[t].kind \in {"ok", "invalid_json"}) =>
            (ReadNow.status = 200 /\ ReadNow.val \in given)

\* C7: after a completed write of a finite parsed value v, with no other
\* write overlapping or started since, a read returns a value equal to v.
C7_RoundTrip ==
    \A t \in Tasks :
        ( /\ pc[t] \in {"respond", "done"}
          /\ exc[t] = ""
          /\ solo[t]
          /\ parsed[t].payload # PyNone
          /\ ~HasNonFinite(parsed[t].payload) )
        => ReadNow = [status |-> 200, kind |-> "ok",
                      val |-> parsed[t].payload]

\* C7 witness: a write of a non-empty object has completed alone.
C7_Witness ==
    \E t \in Tasks :
        /\ pc[t] = "respond"
        /\ exc[t] = ""
        /\ solo[t]
        /\ parsed[t].payload.t = "obj"
        /\ parsed[t].payload # EmptyMapping
        /\ result_file.exists

\* C8: GET /result ends in 200, 404 not_found or 500 invalid_result_json,
\* never in an uncaught exception.
C8_ReadNeverFaults ==
    /\ ReadNow.kind \in {"ok", "not_found", "invalid_result_json"}
    /\ rpc = "done" =>
          rresponse.kind \in {"ok", "not_found", "invalid_result_json"}

\* C9: while no replace() has succeeded, GET /result answers 404 not_found,
\* also when a first write has already created the temporary file.
C9_NotFoundBeforeFirstRename ==
    renames = 0 =>
        /\ ReadNow = [status |-> 404, kind |-> "not_found", val |-> PyNone]
        /\ rpc # "read"
        /\ rpc = "done" => rresponse.status = 404

\* C9 witness: a read was answered 404 while the first write is in flight
\* and its temporary file exists.
C9_Witness ==
    /\ renames = 0
    /\ tmp_file.exists
    /\ \E t \in Tasks : pc[t] \in {"write", "replace"}
    /\ rpc = "done"
    /\ rresponse.status = 404

\* C10: once result.json exists it exists after every step, and a
\* GET /result that starts after the first successful replace() finds it.
C10_SnapshotNeverDeleted ==
    [][ /\ result_file.exists => result_file'.exists
        /\ (renames > 0 /\ rpc = "idle" /\ rpc' # "idle") => rpc' = "read"
        /\ rpc = "read" => rresponse'.status # 404 ]_vars

\* C10 witness: a replace() failed because the temporary file was gone,
\* result.json is still there and a read was answered from it.
C10_Witness ==
    /\ result_file.exists
    /\ \E t \in Tasks : exc[t] = "FileNotFoundError"
    /\ rpc = "done"
    /\ rresponse.status # 404

\* the text w occurs somewhere in s
Occurs(s, w) == \E i \in 1..Len(s) : StartsWithAt(s, i, w)

\* the word w stands in s as a token of its own
OccursAsWord(s, w) ==
    \E i \in 1..Len(s) :
        /\ StartsWithAt(s, i, w)
        /\ WordBoundary(s, i)
        /\ WordBoundary(s, i + Len(w))

\* C11: in a repaired text no bare NaN or Infinity token is left, and a
\* -Infinity of the input has become null, not -null.
C11_NonFiniteBecomeNull ==
    \A t \in Tasks :
        parsed[t].repaired.some =>
            /\ ~OccursAsWord(parsed[t].repaired.text, NaNText)
            /\ ~OccursAsWord(parsed[t].repaired.text, InfinityText)
            /\ Occurs(parsed[t].repaired.text, <<"-">> \o NullText)
                  => Occurs(raw_text[t], <<"-">> \o NullText)

\* C12: a body whose first field is the bare token NaN, with or without a
\* defect that needs repair, parses successfully and that field is null.
C12_NaNParsesToNull ==
    \A t \in Tasks :
        \A v2 \in PlainValues \cup DatetimeValues, tr \in Trails :
            (pc[t] # "idle" /\ raw_text[t] = PayloadText(NaNText, v2, tr)) =>
                /\ ~parsed[t].error.some
                /\ parsed[t].payload.t = "obj"
                /\ parsed[t].payload.kv[1].v = PyNone

\* a bare datetime as the repair is meant to leave it: quoted
FixValue(v) ==
    IF v \in DatetimeValues THEN <<"\"">> \o v \o <<"\"">> ELSE v

\* the value of the body with its datetimes quoted and no trailing comma
ExpectedPayload(v1, v2) ==
    json_loads(PayloadText(FixValue(v1), FixValue(v2), <<>>)).val

\* C13 as stated: a body whose only defects are an unquoted datetime and a
\* trailing comma parses to the value of the corrected body, whatever valid
\* JSON its other field holds.
C13_DatetimeAndCommaRepaired ==
    \A t \in Tasks :
        \A v1 \in DatetimeValues,
           v2 \in PlainValues \cup TrickyValues \cup DatetimeValues,
           tr \in Trails :
            (pc[t] # "idle" /\ raw_text[t] = PayloadText(v1, v2, tr)) =>
                /\ ~parsed[t].error.some
                /\ parsed[t].payload = ExpectedPayload(v1, v2)

\* C13 amended: the same, for bodies in which no string literal holds text
\* that a repair rule matches; the request is then answered 200 with it.
C13_RepairedWhenStringsClean ==
    \A t \in Tasks :
        \A v1 \in PlainValues \cup DatetimeValues,
           v2 \in PlainValues \cup DatetimeValues,
           tr \in Trails :
            (pc[t] # "idle" /\ raw_text[t] = PayloadText(v1, v2, tr)) =>
                /\ ~parsed[t].error.some
                /\ parsed[t].payload = ExpectedPayload(v1, v2)
                /\ pc[t] = "done" =>
                      /\ response[t].status = 200
                      /\ response[t].received = ExpectedPayload(v1, v2)

\* C13 witness: {"bar_time":2025.12.12 04:05:00,"price":1.23,} was answered
\* 200 with bar_time the string "2025.12.12 04:05:00" and price 1.23.
C13_Witness ==
    /\ pc["w1"] = "done"
    /\ raw_text["w1"] = PayloadText(DatetimeText, PriceText, <<",">>)
    /\ parsed["w1"].repaired.some
    /\ response["w1"].status = 200
    /\ response["w1"].received =
          JObj(<<[k |-> <<"b", "a", "r", "_", "t", "i", "m", "e">>,
                  v |-> JStr(DatetimeText)],
                 [k |-> <<"p", "r", "i", "c", "e">>,
                  v |-> JFloat(FALSE, 1, <<"2", "3">>)]>>)

\* C14: a 400 invalid_json response carries an error message: the one of
\* the strict parse and the one of the parse after repair.
C14_FailureCarriesErrors ==
    \A t \in Tasks :
        (pc[t] = "done" /\ response[t].kind = "invalid_json") =>
            /\ response[t].error.some
            /\ response[t].error.first # ""
            /\ response[t].error.second # ""

RECURSIVE WithoutBadBytes(_)
\* the bytes of b that are valid UTF-8, in their order
WithoutBadBytes(b) ==
    IF b = <<>> THEN <<>>
    ELSE IF Head(b) = BadByte THEN WithoutBadBytes(Tail(b))
    ELSE <<Head(b)>> \o WithoutBadBytes(Tail(b))

\* b with a replacement marker in the place of every invalid byte
WithMarkers(b) ==
    [i \in 1..Len(b) |-> IF b[i] = BadByte THEN ReplacementChar ELSE b[i]]

C17_ConcurrentWritesSucceed ==
    faults = 0 =>
        \A t \in Tasks :
            /\ exc[t] = ""
            /\ ( /\ pc[t] = "done"
                 /\ parsed[t].payload # PyNone
                 /\ ~HasNonFinite(parsed[t].payload) )
               => response[t].status = 200

\* a task inside _write_sync, or about to enter it
Writing(t) == pc[t] \in {"open", "write", "replace"}

\* C18: when no write is in flight and none was ended by a disk fault,
\* result.json.tmp does not exist.
C18_TmpFileTransient ==
    ((\A t \in Tasks : ~Writing(t)) /\ faults = 0) => ~tmp_file.exists

\* C18 witness: two writes ran together, one replace() failed because the
\* other had renamed the temporary file away, and both have finished.
C18_Witness ==
    /\ \A t \in Tasks : ~Writing(t)
    /\ faults = 0
    /\ renames >= 1
    /\ \E t \in Tasks : exc[t] = "FileNotFoundError"
    /\ ~tmp_file.exists

\* C19: a step of GET /result, a GET /hello, and the decode-and-parse step of
\* POST /webhook leave result.json and result.json.tmp as they were; a step
\* that changes either file is a step of some request's _write_sync.
C19_OnlyWritesChangeFiles ==
    [][ /\ ( \/ rpc' # rpc
             \/ hello' # hello
             \/ \E t \in Tasks : pc[t] = "idle" /\ pc'[t] # "idle" )
           => UNCHANGED <<result_file, tmp_file>>
        /\ (result_file' # result_file \/ tmp_file' # tmp_file)
           => \E t \in Tasks : Writing(t) /\ pc'[t] # pc[t] ]_vars

\* C19 witness: GET /result and GET /hello were answered and a second
\* request was parsed, all with a snapshot on disk.
C19_Witness ==
    /\ rpc = "done"
    /\ rresponse.status = 200
    /\ hello.status = 200
    /\ result_file.exists
    /\ \E t \in Tasks : pc[t] = "open" /\ parsed[t] # NoParse

====
